---- MODULE Spec2Model ----
(***************************************************************************)
(* Model of the Go board state machine of go_game_gui.py (class GoBoard):  *)
(* group and liberty computation, capture removal, suicide and ko          *)
(* legality, make_move, undo_move and get_valid_moves.                     *)
(*                                                                         *)
(* The board is a Size x Size grid indexed from 0, as in the source.       *)
(* Every behaviour starts from the freshly constructed board.  To reach    *)
(* middle-game positions (captures, ko) without enumerating every opening, *)
(* the calls of a behaviour follow one of a few fixed opening lines        *)
(* (Scripts) and may leave the line at any point for at most MaxFree       *)
(* arbitrary calls.                                                        *)
(***************************************************************************)
EXTENDS Integers, Sequences, FiniteSets, TLC

\* Side of the board explored by the model (BOARD_SIZE is 7 in the source).
Size == 4

\* Number of arbitrary calls a behaviour may make after leaving its opening line.
MaxFree == 1

\* Python's None (ko_position, previous_board).
None == <<>>

Idx == 0 .. (Size - 1)

Cells == Idx \X Idx

VARIABLES
    board,            \* GoBoard.board
    previous_board,   \* GoBoard.previous_board
    current_player,   \* GoBoard.current_player: 1 Black, 2 White
    captured_black,   \* GoBoard.captured_black: black stones captured (by White)
    captured_white,   \* GoBoard.captured_white: white stones captured (by Black)
    move_history,     \* GoBoard.move_history
    ko_position,      \* GoBoard.ko_position
    script,           \* the opening line this behaviour follows
    pos,              \* number of calls of the opening line made so far
    free,             \* number of calls made after leaving the opening line
    last,             \* the most recent call and what it returned
    last2,            \* the call before it
    pre,              \* the board object as it was before the most recent call
    pre2,             \* the board object as it was before the call before it
    snapshots,        \* for each entry of move_history, the cells just before that move
    undone,           \* whether some undo_move has succeeded so far
    heap,             \* the objects and lists made so far, by reference
    objects,          \* the GoBoard objects in use: reference, and calls of the line made
    acted,            \* which of them the most recent call was made on
    game,             \* the fields of GoGame other than board
    saved,            \* the record written by save_game, if any
    loads             \* number of calls of load_game made so far

vars == <<board, previous_board, current_player, captured_black, captured_white,
          move_history, ko_position, script, pos, free, last, last2, pre, pre2,
          snapshots, undone, heap, objects, acted, game, saved, loads>>

(***************************************************************************)
(* GoBoard                                                                 *)
(***************************************************************************)

\* GoBoard.__init__
NewBoard ==
    [board           |-> [r \in Idx |-> [c \in Idx |-> 0]],
     previous_board  |-> None,
     current_player  |-> 1,
     captured_black  |-> 0,
     captured_white  |-> 0,
     move_history    |-> <<>>,
     ko_position     |-> None]

\* GoGame.__init__: the fields of a new game object other than board (and the
\* window, the clock and the buttons).
NewGame ==
    [ai           |-> None,
     game_mode    |-> None,
     difficulty   |-> 2,
     show_menu    |-> TRUE,
     show_hint    |-> FALSE,
     hint_move    |-> None,
     last_move    |-> None,
     ai_thinking  |-> FALSE,
     game_over    |-> FALSE,
     winner_text  |-> ""]

\* The fields of the board object in the current state.
Cur ==
    [board           |-> board,
     previous_board  |-> previous_board,
     current_player  |-> current_player,
     captured_black  |-> captured_black,
     captured_white  |-> captured_white,
     move_history    |-> move_history,
     ko_position     |-> ko_position]

is_valid_position(row, col) ==
    0 <= row /\ row < Size /\ 0 <= col /\ col < Size

directions == << <<0, 1>>, <<1, 0>>, <<0, -1>>, <<-1, 0>> >>

\* The in-grid neighbours of (row, col), in the order of `directions`.
get_neighbors(row, col) ==
    LET cand == [i \in 1 .. 4 |-> <<row + directions[i][1], col + directions[i][2]>>]
    IN  SelectSeq(cand, LAMBDA p : is_valid_position(p[1], p[2]))

Range(s) == {s[i] : i \in 1 .. Len(s)}

\* The element of a set of one element.  A local variable x of the code with
\* the value e is The({... x ... : x \in {e}}).
The(S) == CHOOSE x \in S : TRUE

\* One pass of the while loop of get_group, a depth-first flood fill driven
\* by a stack: w holds stack and group.
GroupStep(b, color, w) ==
    LET p    == w.stack[Len(w.stack)]
        rest == SubSeq(w.stack, 1, Len(w.stack) - 1)
    IN  IF p \in w.group THEN [stack |-> rest, group |-> w.group]
        ELSE LET g2   == w.group \cup {p}
                 push == SelectSeq(get_neighbors(p[1], p[2]),
                                   LAMBDA q : b[q[1]][q[2]] = color /\ q \notin g2)
             IN  [stack |-> rest \o push, group |-> g2]

\* Up to n passes of the while loop of get_group: the first half of them, then
\* the others, until the stack is empty.
RECURSIVE GroupPasses(_, _, _, _)
GroupPasses(b, color, w, n) ==
    IF w.stack = <<>> THEN w
    ELSE IF n = 1 THEN GroupStep(b, color, w)
    ELSE The({GroupPasses(b, color, half, n - n \div 2)
              : half \in {GroupPasses(b, color, w, n \div 2)}})

\* The while loop of get_group: n passes, then 2 * n, and so on until the
\* stack is empty.
RECURSIVE GroupLoop(_, _, _, _)
GroupLoop(b, color, w, n) ==
    IF w.stack = <<>> THEN w
    ELSE The({GroupLoop(b, color, done, 2 * n) : done \in {GroupPasses(b, color, w, n)}})

get_group(b, row, col) ==
    IF b[row][col] = 0 THEN {}
    ELSE GroupLoop(b, b[row][col], [stack |-> << <<row, col>> >>, group |-> {}], 1).group

\* The set of liberties collected by count_liberties.
LibertySet(b, group) ==
    UNION {{q \in Range(get_neighbors(p[1], p[2])) : b[q[1]][q[2]] = 0} : p \in group}

count_liberties(b, group) == Cardinality(LibertySet(b, group))

\* The board with every cell of group emptied (the inner loop of remove_captured_stones).
ClearGroup(b, group) ==
    [r \in Idx |-> [c \in Idx |-> IF <<r, c>> \in group THEN 0 ELSE b[r][c]]]

\* remove_captured_stones at cell number k: rem is the board, the number of
\* stones removed and the cells of the groups looked at so far.
RemoveStep(rem, opponent_color, k) ==
    LET row == k \div Size
        col == k % Size
    IN  IF rem.board[row][col] = opponent_color /\ <<row, col>> \notin rem.checked
        THEN LET group == get_group(rem.board, row, col)
             IN  IF count_liberties(rem.board, group) = 0
                 THEN [board    |-> ClearGroup(rem.board, group),
                       captured |-> rem.captured + Cardinality(group),
                       checked  |-> rem.checked \cup group]
                 ELSE [rem EXCEPT !.checked = rem.checked \cup group]
        ELSE rem

\* The row-major scan of remove_captured_stones over the cells number
\* lo .. hi: the first half of them, then the second.
RECURSIVE RemoveLoop(_, _, _, _)
RemoveLoop(rem, opponent_color, lo, hi) ==
    IF lo = hi THEN RemoveStep(rem, opponent_color, lo)
    ELSE The({RemoveLoop(half, opponent_color, (lo + hi) \div 2 + 1, hi)
              : half \in {RemoveLoop(rem, opponent_color, lo, (lo + hi) \div 2)}})

\* RemoveStep counting one per captured group instead of one per stone.
RemoveStepGroups(rem, opponent_color, k) ==
    LET row == k \div Size
        col == k % Size
    IN  IF rem.board[row][col] = opponent_color /\ <<row, col>> \notin rem.checked
        THEN LET group == get_group(rem.board, row, col)
             IN  IF count_liberties(rem.board, group) = 0
                 THEN [board    |-> ClearGroup(rem.board, group),
                       captured |-> rem.captured + 1,
                       checked  |-> rem.checked \cup group]
                 ELSE [rem EXCEPT !.checked = rem.checked \cup group]
        ELSE rem

RECURSIVE RemoveLoopGroups(_, _, _, _)
RemoveLoopGroups(rem, opponent_color, lo, hi) ==
    IF lo = hi THEN RemoveStepGroups(rem, opponent_color, lo)
    ELSE The({RemoveLoopGroups(half, opponent_color, (lo + hi) \div 2 + 1, hi)
              : half \in {RemoveLoopGroups(rem, opponent_color, lo, (lo + hi) \div 2)}})

\* What remove_captured_stones returns of the scan that ended as rem.
Removed(rem) == [board |-> rem.board, captured |-> rem.captured]

remove_captured_stones_count_groups(b, opponent_color) ==
    Removed(RemoveLoopGroups([board |-> b, captured |-> 0, checked |-> {}],
                             opponent_color, 0, Size * Size - 1))

\* Returns the board after the removal and the number of stones removed.
remove_captured_stones(b, opponent_color) ==
    Removed(RemoveLoop([board |-> b, captured |-> 0, checked |-> {}],
                       opponent_color, 0, Size * Size - 1))

\* would_be_suicide with the temporary stone left on the board.
would_be_suicide_keep_stone(b, row, col, color) ==
    LET b1 == [b EXCEPT ![row][col] = color]
        liberties == count_liberties(b1, get_group(b1, row, col))
        would_capture ==
            \E n \in Range(get_neighbors(row, col)) :
                /\ b1[n[1]][n[2]] = 3 - color
                /\ count_liberties(b1, get_group(b1, n[1], n[2])) = 0
    IN  [result |-> liberties = 0 /\ ~would_capture, board |-> b1]

\* would_be_suicide that looks at the placed stone's liberties only.
would_be_suicide_no_capture(b, row, col, color) ==
    LET b1 == [b EXCEPT ![row][col] = color]
        liberties == count_liberties(b1, get_group(b1, row, col))
    IN  [result |-> liberties = 0, board |-> [b1 EXCEPT ![row][col] = 0]]

\* would_be_suicide that takes every adjacent opposing stone for a capture.
would_be_suicide_touching(b, row, col, color) ==
    LET b1 == [b EXCEPT ![row][col] = color]
        liberties == count_liberties(b1, get_group(b1, row, col))
        would_capture ==
            \E n \in Range(get_neighbors(row, col)) : b1[n[1]][n[2]] = 3 - color
    IN  [result |-> liberties = 0 /\ ~would_capture,
         board  |-> [b1 EXCEPT ![row][col] = 0]]

\* would_be_suicide: its return value and the board it leaves behind.
would_be_suicide(b, row, col, color) ==
    LET b1 == [b EXCEPT ![row][col] = color]
        liberties == count_liberties(b1, get_group(b1, row, col))
        opponent_color == 3 - color
        would_capture ==
            \E n \in Range(get_neighbors(row, col)) :
                /\ b1[n[1]][n[2]] = opponent_color
                /\ count_liberties(b1, get_group(b1, n[1], n[2])) = 0
    IN  [result |-> liberties = 0 /\ ~would_capture,
         board  |-> [b1 EXCEPT ![row][col] = 0]]

\* is_valid_move without the ko test.
is_valid_move_no_ko(s, row, col) ==
    IF s.board[row][col] # 0 THEN [result |-> FALSE, board |-> s.board]
    ELSE LET w == would_be_suicide(s.board, row, col, s.current_player)
         IN  [result |-> ~w.result, board |-> w.board]

\* is_valid_move: its return value and the cells it leaves behind.
is_valid_move(s, row, col) ==
    IF s.board[row][col] # 0 THEN [result |-> FALSE, board |-> s.board]
    ELSE IF s.ko_position = <<row, col>> THEN [result |-> FALSE, board |-> s.board]
    ELSE LET w == would_be_suicide(s.board, row, col, s.current_player)
         IN  [result |-> ~w.result, board |-> w.board]

\* The ko scan of make_move without its test that the cell is empty now.
RECURSIVE KoScan_any_opponent(_, _, _, _, _)
KoScan_any_opponent(prev, b, opponent_color, r, ko) ==
    IF r >= Size THEN ko
    ELSE LET hit == {c \in Idx : prev[r][c] = opponent_color}
         IN  IF hit = {} THEN KoScan_any_opponent(prev, b, opponent_color, r + 1, ko)
             ELSE LET c == CHOOSE x \in hit : \A y \in hit : x <= y
                  IN  KoScan_any_opponent(prev, b, opponent_color, r + 1, <<r, c>>)

\* The ko scan of make_move: in every row the first cell that held an opposing
\* stone before the move and is empty now; `break` leaves the inner loop only.
RECURSIVE KoScan(_, _, _, _, _)
KoScan(prev, b, opponent_color, r, ko) ==
    IF r >= Size THEN ko
    ELSE LET hit == {c \in Idx : prev[r][c] = opponent_color /\ b[r][c] = 0}
         IN  IF hit = {} THEN KoScan(prev, b, opponent_color, r + 1, ko)
             ELSE LET c == CHOOSE x \in hit : \A y \in hit : x <= y
                  IN  KoScan(prev, b, opponent_color, r + 1, <<r, c>>)

\* The ko update of make_move without its else branch.
KoAfterMove_no_clear(prev, b, opponent_color, captured, ko) ==
    IF captured = 1 THEN KoScan(prev, b, opponent_color, 0, ko) ELSE ko

\* The ko update of make_move: ko_position after a move that captured `captured` stones.
KoAfterMove(prev, b, opponent_color, captured, ko) ==
    IF captured = 1 THEN KoScan(prev, b, opponent_color, 0, ko) ELSE None

\* make_move: its return value and the board object it leaves behind.
make_move(s, row, col) ==
    LET v  == is_valid_move(s, row, col)
        s0 == [s EXCEPT !.board = v.board]
    IN  IF ~v.result THEN [ok |-> FALSE, state |-> s0]
        ELSE LET prev           == s0.board
                 placed         == [s0.board EXCEPT ![row][col] = s0.current_player]
                 opponent_color == 3 - s0.current_player
                 rem            == remove_captured_stones(placed, opponent_color)
                 captured       == rem.captured
             IN  [ok |-> TRUE,
                  state |->
                    [board          |-> rem.board,
                     previous_board |-> prev,
                     current_player |-> 3 - s0.current_player,
                     captured_black |-> IF s0.current_player = 1 THEN s0.captured_black
                                        ELSE s0.captured_black + captured,
                     captured_white |-> IF s0.current_player = 1
                                        THEN s0.captured_white + captured
                                        ELSE s0.captured_white,
                     move_history   |-> Append(s0.move_history,
                                               <<row, col, s0.current_player>>),
                     ko_position    |-> KoAfterMove(prev, rem.board, opponent_color,
                                                    captured, s0.ko_position)]]

\* undo_move that forgets to pop move_history.
undo_move_keep_history(s) ==
    IF s.move_history = <<>> \/ s.previous_board = None
    THEN [ok |-> FALSE, state |-> s]
    ELSE [ok |-> TRUE,
          state |-> [s EXCEPT !.board = s.previous_board,
                              !.current_player = 3 - s.current_player,
                              !.captured_black = 0,
                              !.captured_white = 0,
                              !.ko_position = None]]

\* undo_move that refuses only when both the history and the snapshot are missing.
undo_move_and_guard(s) ==
    IF s.move_history = <<>> /\ s.previous_board = None
    THEN [ok |-> FALSE, state |-> s]
    ELSE [ok |-> TRUE,
          state |-> [s EXCEPT !.board = s.previous_board,
                              !.current_player = 3 - s.current_player,
                              !.captured_black = 0,
                              !.captured_white = 0,
                              !.move_history =
                                  SubSeq(s.move_history, 1, Len(s.move_history) - 1),
                              !.ko_position = None]]

\* undo_move that does not switch the player back.
undo_move_no_flip(s) ==
    IF s.move_history = <<>> \/ s.previous_board = None
    THEN [ok |-> FALSE, state |-> s]
    ELSE [ok |-> TRUE,
          state |-> [s EXCEPT !.board = s.previous_board,
                              !.captured_black = 0,
                              !.captured_white = 0,
                              !.move_history =
                                  SubSeq(s.move_history, 1, Len(s.move_history) - 1),
                              !.ko_position = None]]

\* undo_move: its return value and the board object it leaves behind.
undo_move(s) ==
    IF s.move_history = <<>> \/ s.previous_board = None
    THEN [ok |-> FALSE, state |-> s]
    ELSE [ok |-> TRUE,
          state |->
            [board          |-> s.previous_board,
             previous_board |-> s.previous_board,
             current_player |-> 3 - s.current_player,
             captured_black |-> 0,
             captured_white |-> 0,
             move_history   |-> SubSeq(s.move_history, 1, Len(s.move_history) - 1),
             ko_position    |-> None]]

\* The komi added to White's score, 2.5, in half points.
KomiHalves == 5

\* The stone count of get_score from cell number k on, in half points.
RECURSIVE ScoreLoop(_, _, _, _)
ScoreLoop(b, k, black_score, white_score) ==
    IF k >= Size * Size THEN [black |-> black_score, white |-> white_score]
    ELSE LET row == k \div Size
             col == k % Size
         IN  IF b[row][col] = 1 THEN ScoreLoop(b, k + 1, black_score + 2, white_score)
             ELSE IF b[row][col] = 2 THEN ScoreLoop(b, k + 1, black_score, white_score + 2)
             ELSE ScoreLoop(b, k + 1, black_score, white_score)

\* get_score adding each side's own losses instead of its captures.
get_score_own_losses(s) ==
    LET n == ScoreLoop(s.board, 0, 0, 0)
    IN  <<n.black + 2 * s.captured_black, n.white + 2 * s.captured_white + KomiHalves>>

\* get_score: (black_score, white_score), in half points.
get_score(s) ==
    LET n == ScoreLoop(s.board, 0, 0, 0)
    IN  <<n.black + 2 * s.captured_white, n.white + 2 * s.captured_black + KomiHalves>>

\* get_valid_moves at the cell (row, col): v is the list of moves and the
\* cells so far.
ValidMovesStep(s, v, row, col) ==
    The({[moves |-> IF r.result THEN Append(v.moves, <<row, col>>) ELSE v.moves,
          board |-> r.board]
         : r \in {is_valid_move([s EXCEPT !.board = v.board], row, col)}})

\* The row-major scan of get_valid_moves over the cells number lo .. hi: the
\* first half of them, then the second.
RECURSIVE ValidMovesLoop(_, _, _, _)
ValidMovesLoop(s, v, lo, hi) ==
    IF lo = hi THEN ValidMovesStep(s, v, lo \div Size, lo % Size)
    ELSE The({ValidMovesLoop(s, half, (lo + hi) \div 2 + 1, hi)
              : half \in {ValidMovesLoop(s, v, lo, (lo + hi) \div 2)}})

\* get_valid_moves scanning column by column.
RECURSIVE ValidMovesLoopByColumn(_, _, _, _)
ValidMovesLoopByColumn(s, v, lo, hi) ==
    IF lo = hi THEN ValidMovesStep(s, v, lo % Size, lo \div Size)
    ELSE The({ValidMovesLoopByColumn(s, half, (lo + hi) \div 2 + 1, hi)
              : half \in {ValidMovesLoopByColumn(s, v, lo, (lo + hi) \div 2)}})

get_valid_moves_by_column(s) ==
    ValidMovesLoopByColumn(s, [moves |-> <<>>, board |-> s.board], 0, Size * Size - 1)

\* get_valid_moves: the list it returns and the cells it leaves behind.
get_valid_moves(s) ==
    ValidMovesLoop(s, [moves |-> <<>>, board |-> s.board], 0, Size * Size - 1)

\* GoBoard.copy, on values: a board object with the same fields.
copy(s) ==
    [board           |-> s.board,
     previous_board  |-> s.previous_board,
     current_player  |-> s.current_player,
     captured_black  |-> s.captured_black,
     captured_white  |-> s.captured_white,
     move_history    |-> s.move_history,
     ko_position     |-> s.ko_position]

(***************************************************************************)
(* MinimaxAI.  Scores are in half points, so that the centre bonus         *)
(* 3.5 - abs(row - 3) is the integer 7 - 2 * abs(row - 3).                 *)
(***************************************************************************)

\* The deepest search the game configures (difficulty Hard).
MaxDepth == 3

\* float('inf'): larger than any score of evaluate_board.
Inf == 1000000

AbsVal(n) == IF n < 0 THEN -n ELSE n

\* center_bonus of evaluate_board, in half points.
center_bonus(row, col) == (7 - 2 * AbsVal(row - 3)) + (7 - 2 * AbsVal(col - 3))

\* evaluate_board, heuristic 1: what the stone on cell number k adds to score.
TerritoryAt(b, player, k) ==
    LET row == k \div Size
        col == k % Size
    IN  IF b[row][col] = player THEN 20 + center_bonus(row, col)
        ELSE IF b[row][col] = 3 - player THEN -(20 + center_bonus(row, col))
        ELSE 0

\* The loop of heuristic 1 over the cells number lo .. hi, summed by halves.
RECURSIVE TerritoryLoop(_, _, _, _)
TerritoryLoop(b, player, lo, hi) ==
    IF lo = hi THEN TerritoryAt(b, player, lo)
    ELSE TerritoryLoop(b, player, lo, (lo + hi) \div 2)
         + TerritoryLoop(b, player, (lo + hi) \div 2 + 1, hi)

\* evaluate_board, heuristic 3: what the liberties of the group of the stone on
\* cell number k add to score.
LibertyAt(b, player, k) ==
    LET row == k \div Size
        col == k % Size
    IN  IF b[row][col] = player THEN 4 * count_liberties(b, get_group(b, row, col))
        ELSE IF b[row][col] = 3 - player
        THEN -(4 * count_liberties(b, get_group(b, row, col)))
        ELSE 0

\* The loop of heuristic 3 over the cells number lo .. hi, summed by halves.
RECURSIVE LibertyLoop(_, _, _, _)
LibertyLoop(b, player, lo, hi) ==
    IF lo = hi THEN LibertyAt(b, player, lo)
    ELSE LibertyLoop(b, player, lo, (lo + hi) \div 2)
         + LibertyLoop(b, player, (lo + hi) \div 2 + 1, hi)

\* evaluate_board, heuristic 4: the four corners, in the order of `corners`.
CornerScore(b, player) ==
    LET corners == << <<0, 0>>, <<0, Size - 1>>, <<Size - 1, 0>>, <<Size - 1, Size - 1>> >>
        one(i) == IF b[corners[i][1]][corners[i][2]] = player THEN 10
                  ELSE IF b[corners[i][1]][corners[i][2]] = 3 - player THEN -10
                  ELSE 0
    IN  one(1) + one(2) + one(3) + one(4)

\* evaluate_board for the engine whose colour is player, in half points.
evaluate_board(s, player) ==
    TerritoryLoop(s.board, player, 0, Size * Size - 1)
    + (IF player = 1 THEN 30 * s.captured_white - 30 * s.captured_black
       ELSE 30 * s.captured_black - 30 * s.captured_white)
    + LibertyLoop(s.board, player, 0, Size * Size - 1)
    + CornerScore(s.board, player)

Max(a, b) == IF a >= b THEN a ELSE b

Min(a, b) == IF a <= b THEN a ELSE b

\* A cutoff that is taken while beta is still above alpha.
Cutoff_early(alpha, beta) == beta <= alpha + 40

\* The cutoff test of minimax at a maximizing or minimizing node.
Cutoff(alpha, beta) == beta <= alpha

\* The body of the loop of minimax over valid_moves after the recursive call
\* on new_board, which returned r: loop holds best_move, max_eval or min_eval,
\* alpha, beta, the number of calls so far, and whether the loop was left by
\* break.
MinimaxStep(maximizing, move, loop, r) ==
    LET better == IF maximizing THEN r.score > loop.best_eval ELSE r.score < loop.best_eval
        alpha2 == IF maximizing THEN Max(loop.alpha, r.score) ELSE loop.alpha
        beta2  == IF maximizing THEN loop.beta ELSE Min(loop.beta, r.score)
    IN  [best_eval |-> IF better THEN r.score ELSE loop.best_eval,
         best_move |-> IF better THEN move ELSE loop.best_move,
         alpha     |-> alpha2,
         beta      |-> beta2,
         nodes     |-> loop.nodes + r.nodes,
         broken    |-> Cutoff(alpha2, beta2)]

\* minimax: the score and move it returns, the number of calls it makes
\* (nodes_evaluated) and the cells it leaves behind on the board it was given.
\* MinimaxMove is one pass of the loop over valid_moves, for the i-th move;
\* MinimaxLoop is the passes for the moves number lo .. hi: the first half of
\* them, then the second; MinimaxMoves is minimax after get_valid_moves, which
\* returned v.
RECURSIVE minimax(_, _, _, _, _, _)
MinimaxMove(s, player, depth, maximizing, moves, loop, i) ==
    IF loop.broken THEN loop
    ELSE CHOOSE next \in
             {MinimaxStep(maximizing, moves[i], loop, r)
              : r \in {minimax(new_board, player, depth - 1, loop.alpha, loop.beta,
                               ~maximizing)
                       : new_board \in {make_move(copy(s), moves[i][1], moves[i][2]).state}}}
             : TRUE

RECURSIVE MinimaxLoop(_, _, _, _, _, _, _, _)
MinimaxLoop(s, player, depth, maximizing, moves, loop, lo, hi) ==
    IF lo = hi THEN MinimaxMove(s, player, depth, maximizing, moves, loop, lo)
    ELSE CHOOSE next \in
             {MinimaxLoop(s, player, depth, maximizing, moves, half, (lo + hi) \div 2 + 1, hi)
              : half \in {MinimaxLoop(s, player, depth, maximizing, moves, loop, lo,
                                      (lo + hi) \div 2)}}
             : TRUE

\* The loop variables of minimax before the loop.
BeforeLoop(alpha, beta, maximizing) ==
    [best_eval |-> IF maximizing THEN -Inf ELSE Inf,
     best_move |-> None,
     alpha     |-> alpha,
     beta      |-> beta,
     nodes     |-> 1,
     broken    |-> FALSE]

MinimaxMoves(s, player, depth, alpha, beta, maximizing, v) ==
    IF v.moves = <<>>
    THEN [score |-> evaluate_board([s EXCEPT !.board = v.board], player), move |-> None,
          nodes |-> 1, board |-> v.board]
    ELSE CHOOSE res \in
             {[score |-> loop.best_eval, move |-> loop.best_move, nodes |-> loop.nodes,
               board |-> v.board]
              : loop \in {MinimaxLoop([s EXCEPT !.board = v.board], player, depth, maximizing,
                                      v.moves, BeforeLoop(alpha, beta, maximizing),
                                      1, Len(v.moves))}}
             : TRUE

minimax(s, player, depth, alpha, beta, maximizing) ==
    IF depth = 0
    THEN [score |-> evaluate_board(s, player), move |-> None, nodes |-> 1,
          board |-> s.board]
    ELSE CHOOSE res \in {MinimaxMoves(s, player, depth, alpha, beta, maximizing, v)
                         : v \in {get_valid_moves(s)}} : TRUE

\* A root call that searches one ply less than the engine's depth.
get_best_move_shallow(ai, s) == minimax(s, ai.player, ai.depth - 1, -Inf, Inf, TRUE)

\* get_best_move of an engine [depth, player]: the root call of minimax.  Of its
\* result, get_best_move returns move and nodes (and the time it took).
get_best_move(ai, s) == minimax(s, ai.player, ai.depth, -Inf, Inf, TRUE)

(***************************************************************************)
(* Callers: the calls made on one board object                            *)
(***************************************************************************)

Mv(r, c) == [op |-> "make_move", row |-> r, col |-> c]

Un == [op |-> "undo_move", row |-> -1, col |-> -1]

\* Opening lines.
\*  1: Black captures the corner stone (0,0) with a stone at (0,1) that has no
\*     liberty of its own, which makes (0,0) the ko point; the black stone at
\*     (0,3) is left with the single liberty (1,3).
\*  2: Black captures the two-stone group (0,0),(0,1).
\*  3: two moves are taken back one after the other.
\*  4: White is left a corner point, (0,0), without liberties.
\*  5: as 1, with (3,3) a point without liberties for Black when the capture
\*     at (0,1) becomes possible; two more moves leave four empty points.
Scripts ==
    << << Mv(1, 0), Mv(0, 0), Mv(0, 3), Mv(0, 2), Mv(3, 3), Mv(1, 1), Mv(0, 1) >>,
       << Mv(1, 0), Mv(0, 0), Mv(1, 1), Mv(0, 1), Mv(0, 2) >>,
       << Mv(1, 1), Mv(0, 1), Un, Un >>,
       << Mv(0, 1), Mv(3, 3), Mv(1, 0) >>,
       << Mv(1, 0), Mv(0, 0), Mv(2, 0), Mv(0, 2), Mv(3, 0), Mv(1, 1), Mv(3, 1),
          Mv(2, 3), Mv(1, 3), Mv(3, 2), Mv(0, 1), Mv(1, 2),
          Mv(2, 1) >> >>

\* The filling line.  A black stone, a white stone at the last point and two
\* undo calls leave the black stone on the board with Black to move again:
\* repeated for every point but the first and the last two, then
\*   - Black plays the last point but one: White has no legal move;
\*   - that move is taken back, Black plays (0,0), the two-call step is made
\*     once more and Black plays the last point but one again: the only legal
\*     move of White is the last point, which captures every black stone.
FillStep(k) == << Mv(k \div Size, k % Size), Mv(Size - 1, Size - 1), Un, Un >>

RECURSIVE FillSteps(_)
FillSteps(k) == IF k > Size * Size - 3 THEN <<>> ELSE FillStep(k) \o FillSteps(k + 1)

FillLine ==
    FillSteps(1) \o
    << Mv(Size - 1, Size - 2), Un, Mv(0, 0), Mv(Size - 1, Size - 1), Un, Un,
       Mv(Size - 1, Size - 2), Mv(Size - 1, Size - 1) >>

\* The lines of play: the opening lines and the filling line.
Lines == Scripts \o << FillLine >>

Init ==
    /\ board = NewBoard.board
    /\ previous_board = NewBoard.previous_board
    /\ current_player = NewBoard.current_player
    /\ captured_black = NewBoard.captured_black
    /\ captured_white = NewBoard.captured_white
    /\ move_history = NewBoard.move_history
    /\ ko_position = NewBoard.ko_position
    /\ script \in 1 .. Len(Scripts)
    /\ pos = 0
    /\ free = 0
    /\ last = [op |-> "init", row |-> -1, col |-> -1, ok |-> TRUE]
    /\ last2 = [op |-> "init", row |-> -1, col |-> -1, ok |-> TRUE]
    /\ pre = NewBoard
    /\ pre2 = NewBoard
    /\ snapshots = <<>>
    /\ undone = FALSE
    /\ heap = <<>>
    /\ objects = <<>>
    /\ acted = 0
    /\ game = NewGame
    /\ saved = None
    /\ loads = 0

\* A call is on the line when the behaviour has not left it and it is the line's next call.
OnLine(call) ==
    /\ free = 0
    /\ pos < Len(Lines[script])
    /\ Lines[script][pos + 1] = call

\* Bookkeeping common to every call: the budget, and the record of the call.
Called(call, res) ==
    /\ OnLine(call) \/ free < MaxFree
    /\ pos' = IF OnLine(call) THEN pos + 1 ELSE pos
    /\ free' = IF OnLine(call) THEN free ELSE free + 1
    /\ board' = res.state.board
    /\ previous_board' = res.state.previous_board
    /\ current_player' = res.state.current_player
    /\ captured_black' = res.state.captured_black
    /\ captured_white' = res.state.captured_white
    /\ move_history' = res.state.move_history
    /\ ko_position' = res.state.ko_position
    /\ last' = [op |-> call.op, row |-> call.row, col |-> call.col, ok |-> res.ok]
    /\ last2' = last
    /\ pre' = Cur
    /\ pre2' = pre
    /\ snapshots' = IF call.op = "make_move" /\ res.ok THEN Append(snapshots, board)
                    ELSE IF call.op = "undo_move" /\ res.ok
                         THEN SubSeq(snapshots, 1, Len(snapshots) - 1)
                         ELSE snapshots
    /\ undone' = (undone \/ (call.op = "undo_move" /\ res.ok))
    /\ UNCHANGED <<script, heap, objects, acted, game, saved, loads>>

\* board.make_move(row, col)
MakeMove(row, col) == Called(Mv(row, col), make_move(Cur, row, col))

\* board.undo_move()
UndoMove == Called(Un, undo_move(Cur))

Next ==
    \/ \E row \in Idx, col \in Idx : MakeMove(row, col)
    \/ UndoMove

Spec == Init /\ [][Next]_vars

(***************************************************************************)
(* The queries of GoBoard, called between the moves                        *)
(***************************************************************************)

Query(name, r, c) == [op |-> name, row |-> r, col |-> c]

\* board.is_valid_move(row, col)
IsValidMove(row, col) ==
    LET v == is_valid_move(Cur, row, col)
    IN  Called(Query("is_valid_move", row, col),
               [ok |-> v.result, state |-> [Cur EXCEPT !.board = v.board]])

\* board.get_valid_moves()
GetValidMoves ==
    LET v == get_valid_moves(Cur)
    IN  Called(Query("get_valid_moves", -1, -1),
               [ok |-> v.moves, state |-> [Cur EXCEPT !.board = v.board]])

\* board.get_score(): it assigns to no field.
GetScore ==
    Called(Query("get_score", -1, -1), [ok |-> get_score(Cur), state |-> Cur])

NextQuery ==
    \/ Next
    \/ \E row \in Idx, col \in Idx : IsValidMove(row, col)
    \/ GetValidMoves
    \/ GetScore

SpecQuery == Init /\ [][NextQuery]_vars

(***************************************************************************)
(* The objects behind the fields.  A GoBoard is an object whose board and  *)
(* previous_board refer to a list of row lists and whose move_history      *)
(* refers to a list; an assignment to self.board[row][col], an append and  *)
(* a pop change the list that is referred to, for every object that refers *)
(* to it, while an assignment to a field changes that object alone.  The   *)
(* heap is the sequence of all objects and lists made so far; a reference  *)
(* is an index of it.                                                      *)
(***************************************************************************)

\* The reference that is None.
Null == 0

\* A new object or list with content v.
Alloc(h, v) == [heap |-> Append(h, v), ref |-> Len(h) + 1]

\* The list of rows b as new lists: Size row lists and the list of them.
\* deepcopy(None) is None.
\* A row list: the cells of the row, from column c on.
RECURSIVE RowList(_, _)
RowList(row, c) == IF c >= Size THEN <<>> ELSE << row[c] >> \o RowList(row, c + 1)

\* The row lists of the rows of b, from row r on.
RECURSIVE RowsFrom(_, _)
RowsFrom(b, r) ==
    IF r >= Size THEN <<>> ELSE << RowList(b[r], 0) >> \o RowsFrom(b, r + 1)

\* The references n + 1 .. n + Size, as the content of a list of rows.
RECURSIVE RefsFrom(_, _)
RefsFrom(n, r) == IF r >= Size THEN <<>> ELSE << n + 1 + r >> \o RefsFrom(n, r + 1)

AllocGrid(h, b) ==
    IF b = None THEN [heap |-> h, ref |-> Null]
    ELSE [heap |-> h \o RowsFrom(b, 0) \o << RefsFrom(Len(h), 0) >>,
          ref  |-> Len(h) + Size + 1]

\* The rows a list of rows refers to.
\* The list l as a function on Idx, from index i on.
RECURSIVE Indexed(_, _)
Indexed(l, i) ==
    IF i = Size - 1 THEN i :> l[i + 1] ELSE (i :> l[i + 1]) @@ Indexed(l, i + 1)

\* The rows the references of the list refs refer to, from row r on.
RECURSIVE ReadRows(_, _, _)
ReadRows(h, refs, r) ==
    IF r = Size - 1 THEN r :> Indexed(h[refs[r + 1]], 0)
    ELSE (r :> Indexed(h[refs[r + 1]], 0)) @@ ReadRows(h, refs, r + 1)

GridValue(h, g) == IF g = Null THEN None ELSE ReadRows(h, h[g], 0)

\* deepcopy of a list of rows.
DeepCopy(h, g) == AllocGrid(h, GridValue(h, g))

\* The fields of the object o, with the lists they refer to.
ObjValue(h, o) ==
    [board           |-> GridValue(h, h[o].board),
     previous_board  |-> GridValue(h, h[o].previous_board),
     current_player  |-> h[o].current_player,
     captured_black  |-> h[o].captured_black,
     captured_white  |-> h[o].captured_white,
     move_history    |-> h[h[o].move_history],
     ko_position     |-> h[o].ko_position]

\* Assignments self.board[row][col] = ... that leave the rows of g as b.
RECURSIVE WriteRows(_, _, _, _)
WriteRows(h, g, b, r) ==
    IF r >= Size THEN h ELSE WriteRows([h EXCEPT ![h[g][r + 1]] = RowList(b[r], 0)], g, b, r + 1)

WriteGrid(h, g, b) == WriteRows(h, g, b, 0)

\* Assignments to the fields of o that are not references.
WriteFields(h, o, s) ==
    [h EXCEPT ![o].current_player = s.current_player,
              ![o].captured_black = s.captured_black,
              ![o].captured_white = s.captured_white,
              ![o].ko_position = s.ko_position]

\* GoBoard(size): a new object, its rows and its history.
HNew(h) ==
    The({The({Alloc(l.heap, [board           |-> g.ref,
                             previous_board  |-> Null,
                             current_player  |-> 1,
                             captured_black  |-> 0,
                             captured_white  |-> 0,
                             move_history    |-> l.ref,
                             ko_position     |-> None])
              : l \in {Alloc(g.heap, <<>>)}})
         : g \in {AllocGrid(h, NewBoard.board)}})

\* A copy whose board is the list of rows of the original.
HCopy_shared_rows(h, o) ==
    The({The({Alloc(l.heap, [h[o] EXCEPT !.previous_board = p.ref, !.move_history = l.ref])
              : l \in {Alloc(p.heap, h[h[o].move_history])}})
         : p \in {DeepCopy(h, h[o].previous_board)}})

\* The copy of o with the new list of rows g for its board, made in g.heap.
HCopyRest(h, o, g) ==
    The({The({Alloc(l.heap, [h[o] EXCEPT !.board = g.ref, !.previous_board = p.ref,
                                         !.move_history = l.ref])
              : l \in {Alloc(p.heap, h[h[o].move_history])}})
         : p \in {DeepCopy(g.heap, h[o].previous_board)}})

\* o.copy(): the rows of board and previous_board and the history are new
\* lists.  (The lists made by GoBoard(size) in it are dropped at once.)
HCopy(h, o) == The({HCopyRest(h, o, g) : g \in {DeepCopy(h, h[o].board)}})

\* The heap after a call of make_move on o that returned res.
HMoved(h, o, res) ==
    IF ~res.ok
    THEN [ok |-> FALSE, heap |-> WriteGrid(h, h[o].board, res.state.board)]
    ELSE The({The({[ok   |-> TRUE,
                    heap |-> WriteFields(
                                 [h1 EXCEPT ![h[o].move_history] = res.state.move_history,
                                            ![o].previous_board = p.ref],
                                 o, res.state)]
                   : h1 \in {WriteGrid(p.heap, h[o].board, res.state.board)}})
              : p \in {AllocGrid(h, res.state.previous_board)}})

\* o.make_move(row, col): is_valid_move writes to the rows of board; an
\* accepted move makes previous_board a new list of rows, writes to the rows
\* of board and appends to the history.
HMakeMove(h, o, row, col) ==
    The({The({HMoved(h, o, res) : res \in {make_move(s, row, col)}})
         : s \in {ObjValue(h, o)}})

\* The heap after a call of undo_move on o that returned res.
HUndone(h, o, res) ==
    IF ~res.ok
    THEN [ok |-> FALSE, heap |-> h]
    ELSE The({[ok   |-> TRUE,
               heap |-> WriteFields(
                            [g.heap EXCEPT ![h[o].move_history] = res.state.move_history,
                                           ![o].board = g.ref],
                            o, res.state)]
              : g \in {AllocGrid(h, res.state.board)}})

\* o.undo_move(): pops the history and makes board a new list of rows.
HUndoMove(h, o) ==
    The({The({HUndone(h, o, res) : res \in {undo_move(s)}}) : s \in {ObjValue(h, o)}})

\* o.get_valid_moves(): is_valid_move writes to the rows of board.
HGetValidMoves(h, o) ==
    The({The({[moves |-> v.moves, heap |-> WriteGrid(h, h[o].board, v.board)]
              : v \in {get_valid_moves(s)}})
         : s \in {ObjValue(h, o)}})

\* evaluate_board(o, player)
HEvaluateBoard(h, o, player) == The({evaluate_board(s, player) : s \in {ObjValue(h, o)}})

\* new_board = board.copy(); new_board.make_move(move[0], move[1])
HNewBoard(h, o, move) ==
    The({[heap |-> HMakeMove(c.heap, c.ref, move[1], move[2]).heap, ref |-> c.ref]
         : c \in {HCopy(h, o)}})

\* minimax on the heap: the same search, with the objects board.copy() makes
\* and the lists make_move and get_valid_moves write to.  The loop variables
\* come with the heap the pass leaves.
RECURSIVE HMinimax(_, _, _, _, _, _, _)
HMinimaxMove(h, o, player, depth, maximizing, moves, loop, i) ==
    IF loop.broken THEN [loop |-> loop, heap |-> h]
    ELSE CHOOSE next \in
             {[loop |-> MinimaxStep(maximizing, moves[i], loop, r), heap |-> r.heap]
              : r \in {HMinimax(new_board.heap, new_board.ref, player, depth - 1,
                                loop.alpha, loop.beta, ~maximizing)
                       : new_board \in {HNewBoard(h, o, moves[i])}}}
             : TRUE

RECURSIVE HMinimaxLoop(_, _, _, _, _, _, _, _, _)
HMinimaxLoop(h, o, player, depth, maximizing, moves, loop, lo, hi) ==
    IF lo = hi THEN HMinimaxMove(h, o, player, depth, maximizing, moves, loop, lo)
    ELSE CHOOSE next \in
             {HMinimaxLoop(half.heap, o, player, depth, maximizing, moves, half.loop,
                           (lo + hi) \div 2 + 1, hi)
              : half \in {HMinimaxLoop(h, o, player, depth, maximizing, moves, loop, lo,
                                       (lo + hi) \div 2)}}
             : TRUE

HMinimaxMoves(o, player, depth, alpha, beta, maximizing, v) ==
    IF v.moves = <<>>
    THEN [score |-> HEvaluateBoard(v.heap, o, player), move |-> None, nodes |-> 1,
          heap |-> v.heap]
    ELSE CHOOSE res \in
             {[score |-> r.loop.best_eval, move |-> r.loop.best_move,
               nodes |-> r.loop.nodes, heap |-> r.heap]
              : r \in {HMinimaxLoop(v.heap, o, player, depth, maximizing, v.moves,
                                    BeforeLoop(alpha, beta, maximizing), 1, Len(v.moves))}}
             : TRUE

HMinimax(h, o, player, depth, alpha, beta, maximizing) ==
    IF depth = 0
    THEN [score |-> HEvaluateBoard(h, o, player), move |-> None, nodes |-> 1, heap |-> h]
    ELSE CHOOSE res \in {HMinimaxMoves(o, player, depth, alpha, beta, maximizing, v)
                         : v \in {HGetValidMoves(h, o)}} : TRUE

\* ai.get_best_move(o)
HGetBestMove(ai, h, o) == HMinimax(h, o, ai.player, ai.depth, -Inf, Inf, TRUE)

(***************************************************************************)
(* The engine, asked for a move at the positions of the lines of play      *)
(***************************************************************************)

\* The engine is asked where there are at most MaxEmpty empty points and they
\* allow at most SearchBudget sequences of depth moves.
SearchBudget == 64

MaxEmpty == 8

EmptyPoints(b) == Cardinality({p \in Cells : b[p[1]][p[2]] = 0})

Searchable(s, ai) ==
    /\ EmptyPoints(s.board) <= MaxEmpty
    /\ EmptyPoints(s.board) ^ ai.depth <= SearchBudget

\* The engines MinimaxAI(depth, player) the game creates.
Engines == [depth : 1 .. MaxDepth, player : {1, 2}]

InitSearch ==
    /\ board = NewBoard.board
    /\ previous_board = NewBoard.previous_board
    /\ current_player = NewBoard.current_player
    /\ captured_black = NewBoard.captured_black
    /\ captured_white = NewBoard.captured_white
    /\ move_history = NewBoard.move_history
    /\ ko_position = NewBoard.ko_position
    /\ script \in 1 .. Len(Lines)
    /\ pos = 0
    /\ free = 0
    /\ last = [op |-> "init", row |-> -1, col |-> -1, ok |-> TRUE]
    /\ last2 = [op |-> "init", row |-> -1, col |-> -1, ok |-> TRUE]
    /\ pre = NewBoard
    /\ pre2 = NewBoard
    /\ snapshots = <<>>
    /\ undone = FALSE
    /\ heap = <<>>
    /\ objects = <<>>
    /\ acted = 0
    /\ game = NewGame
    /\ saved = None
    /\ loads = 0

\* ai.get_best_move(board): the record of the call keeps the engine and what
\* the root call of minimax returned.
GetBestMove(ai) ==
    /\ free = 0
    /\ Searchable(Cur, ai)
    /\ \E r \in {get_best_move(ai, Cur)} :
           Called(Query("get_best_move", -1, -1),
                  [ok |-> [ai |-> ai, move |-> r.move, score |-> r.score,
                           nodes |-> r.nodes],
                   state |-> [Cur EXCEPT !.board = r.board]])

\* The calls of the line of play, in their order.
LineMove ==
    \/ \E row \in Idx, col \in Idx : OnLine(Mv(row, col)) /\ MakeMove(row, col)
    \/ OnLine(Un) /\ UndoMove

NextSearch ==
    \/ LineMove
    \/ \E ai \in Engines : GetBestMove(ai)

SpecSearch == InitSearch /\ [][NextSearch]_vars

(***************************************************************************)
(* Several board objects: the board of a line of play, copies of it and of *)
(* them, each continuing the line from where it was copied, and the engine *)
(* asked for a move on any of them, though not twice in a row.  The fields *)
(* board .. ko_position are those of the first object.                     *)
(***************************************************************************)

\* The largest number of calls made after the first object has left the line
\* of play: copy(), calls on copies, searches.
MaxCopyCalls == 2

InitCopy ==
    /\ heap = HNew(<<>>).heap
    /\ objects = << [ref |-> HNew(<<>>).ref, pos |-> 0] >>
    /\ acted = 1
    /\ board = NewBoard.board
    /\ previous_board = NewBoard.previous_board
    /\ current_player = NewBoard.current_player
    /\ captured_black = NewBoard.captured_black
    /\ captured_white = NewBoard.captured_white
    /\ move_history = NewBoard.move_history
    /\ ko_position = NewBoard.ko_position
    /\ script \in 1 .. Len(Scripts)
    /\ pos = 0
    /\ free = 0
    /\ last = [op |-> "init", row |-> -1, col |-> -1, ok |-> TRUE]
    /\ last2 = [op |-> "init", row |-> -1, col |-> -1, ok |-> TRUE]
    /\ pre = NewBoard
    /\ pre2 = NewBoard
    /\ snapshots = <<>>
    /\ undone = FALSE
    /\ game = NewGame
    /\ saved = None
    /\ loads = 0

\* Bookkeeping of a call on the i-th object that leaves the heap h and the
\* objects objs.  The calls of the line on the first object are not counted
\* until another call has been made.
CalledOn(i, call, ok, h, objs) ==
    /\ free < MaxCopyCalls
    /\ free' = IF free = 0 /\ i = 1 /\ call.op \in {"make_move", "undo_move"}
               THEN 0 ELSE free + 1
    /\ heap' = h
    /\ objects' = objs
    /\ acted' = i
    /\ pos' = objs[1].pos
    /\ board' = ObjValue(h, objs[1].ref).board
    /\ previous_board' = ObjValue(h, objs[1].ref).previous_board
    /\ current_player' = ObjValue(h, objs[1].ref).current_player
    /\ captured_black' = ObjValue(h, objs[1].ref).captured_black
    /\ captured_white' = ObjValue(h, objs[1].ref).captured_white
    /\ move_history' = ObjValue(h, objs[1].ref).move_history
    /\ ko_position' = ObjValue(h, objs[1].ref).ko_position
    /\ last' = [op |-> call.op, row |-> call.row, col |-> call.col, ok |-> ok]
    /\ last2' = last
    /\ pre' = Cur
    /\ pre2' = pre
    /\ UNCHANGED <<script, snapshots, undone, game, saved, loads>>

\* The next call of the line for the i-th object is call.
NextOnLine(i, call) ==
    /\ objects[i].pos < Len(Lines[script])
    /\ Lines[script][objects[i].pos + 1] = call

\* objects[i].make_move(row, col)
MoveOn(i, row, col) ==
    /\ NextOnLine(i, Mv(row, col))
    /\ \E r \in {HMakeMove(heap, objects[i].ref, row, col)} :
           CalledOn(i, Mv(row, col), r.ok, r.heap, [objects EXCEPT ![i].pos = @ + 1])

\* objects[i].undo_move()
UndoOn(i) ==
    /\ NextOnLine(i, Un)
    /\ \E r \in {HUndoMove(heap, objects[i].ref)} :
           CalledOn(i, Un, r.ok, r.heap, [objects EXCEPT ![i].pos = @ + 1])

\* objects[i].copy(): the copy is a further object.
CopyOn(i) ==
    \E c \in {HCopy(heap, objects[i].ref)} :
        CalledOn(i, Query("copy", -1, -1), Len(objects) + 1, c.heap,
                 Append(objects, [ref |-> c.ref, pos |-> objects[i].pos]))

\* get_hint: ai.get_best_move(objects[i]) of an engine for the player to move.
BestMoveOn(i, ai) ==
    /\ ai.player = heap[objects[i].ref].current_player
    /\ Searchable(ObjValue(heap, objects[i].ref), ai)
    /\ last.op # "get_best_move"
    /\ \E r \in {HGetBestMove(ai, heap, objects[i].ref)} :
           CalledOn(i, Query("get_best_move", -1, -1),
                    [ai |-> ai, move |-> r.move, score |-> r.score, nodes |-> r.nodes],
                    r.heap, objects)

NextCopy ==
    \E i \in 1 .. Len(objects) :
        \/ \E row \in Idx, col \in Idx : MoveOn(i, row, col)
        \/ UndoOn(i)
        \/ CopyOn(i)
        \/ \E ai \in Engines : BestMoveOn(i, ai)

SpecCopy == InitCopy /\ [][NextCopy]_vars

(***************************************************************************)
(* GoGame: saving and loading.  A file is absent or holds a JSON object,   *)
(* which is a function from the names of its fields.                       *)
(***************************************************************************)

\* The record save_game writes (the time stamp is left open).
save_data(s, g) ==
    [board           |-> s.board,
     current_player  |-> s.current_player,
     captured_black  |-> s.captured_black,
     captured_white  |-> s.captured_white,
     move_history    |-> s.move_history,
     game_mode       |-> g.game_mode,
     difficulty      |-> g.difficulty,
     timestamp       |-> "timestamp"]

\* The fields load_game reads, in the order of its assignments.
LoadedFields ==
    << "board", "current_player", "captured_black", "captured_white", "move_history",
       "game_mode", "difficulty" >>

\* One assignment of load_game: self.board.<field> or self.<field> = v.
LoadField(r, field, v) ==
    IF field = "board" THEN [r EXCEPT !.state.board = v]
    ELSE IF field = "current_player" THEN [r EXCEPT !.state.current_player = v]
    ELSE IF field = "captured_black" THEN [r EXCEPT !.state.captured_black = v]
    ELSE IF field = "captured_white" THEN [r EXCEPT !.state.captured_white = v]
    ELSE IF field = "move_history" THEN [r EXCEPT !.state.move_history = v]
    ELSE IF field = "game_mode" THEN [r EXCEPT !.game.game_mode = v]
    ELSE [r EXCEPT !.game.difficulty = v]

\* The engine of start_game with the colours the other way round.
EngineOf_humans_colour(g) ==
    IF g.game_mode \in {"pva_black", "pva_white"}
    THEN [depth |-> g.difficulty, player |-> IF g.game_mode = "pva_black" THEN 1 ELSE 2]
    ELSE g.ai

\* The engine load_game and start_game create for a mode against the engine.
EngineOf(g) ==
    IF g.game_mode \in {"pva_black", "pva_white"}
    THEN [depth |-> g.difficulty, player |-> IF g.game_mode = "pva_black" THEN 2 ELSE 1]
    ELSE g.ai

\* The assignments of load_game from the k-th on: save_data[field] of a field
\* the object lacks raises KeyError, which load_game does not catch.
RECURSIVE LoadLoop(_, _, _)
LoadLoop(r, data, k) ==
    IF k > Len(LoadedFields)
    THEN [result |-> "True", state |-> r.state,
          game |-> [r.game EXCEPT !.ai = EngineOf(r.game), !.show_menu = FALSE]]
    ELSE IF LoadedFields[k] \notin DOMAIN data
         THEN [result |-> "KeyError", state |-> r.state, game |-> r.game]
         ELSE LoadLoop(LoadField(r, LoadedFields[k], data[LoadedFields[k]]), data, k + 1)

\* load_game with the file it opens: FileNotFoundError is caught and False
\* returned.
load_game(s, g, file) ==
    IF ~file.exists THEN [result |-> "False", state |-> s, game |-> g]
    ELSE LoadLoop([state |-> s, game |-> g], file.data, 1)

NoFile == [exists |-> FALSE, data |-> None]

FileOf(data) == [exists |-> TRUE, data |-> data]

\* The object data without one field.
Without(data, field) == [f \in DOMAIN data \ {field} |-> data[f]]

\* A file is a record of the fields load_game reads with a board of Size rows
\* of Size cells.
WellFormed(file) ==
    /\ file.exists
    /\ \A k \in 1 .. Len(LoadedFields) : LoadedFields[k] \in DOMAIN file.data
    /\ file.data.board \in [Idx -> [Idx -> {0, 1, 2}]]

\* The files load_game is given: none; the record that was saved; that record
\* without one of its fields; with an empty list for its board; as a record of
\* a game against the engine.
Files ==
    IF saved = None THEN {NoFile}
    ELSE {NoFile, FileOf(saved)}
         \cup {FileOf(Without(saved, LoadedFields[k])) : k \in 1 .. Len(LoadedFields)}
         \cup {FileOf([saved EXCEPT !.board = <<>>])}
         \cup {FileOf([saved EXCEPT !.game_mode = m]) : m \in {"pva_black", "pva_white"}}

MaxLoads == 1

InitLoad ==
    /\ board = NewBoard.board
    /\ previous_board = NewBoard.previous_board
    /\ current_player = NewBoard.current_player
    /\ captured_black = NewBoard.captured_black
    /\ captured_white = NewBoard.captured_white
    /\ move_history = NewBoard.move_history
    /\ ko_position = NewBoard.ko_position
    /\ script \in 1 .. Len(Scripts)
    /\ pos = 0
    /\ free = 0
    /\ last = [op |-> "init", row |-> -1, col |-> -1, ok |-> TRUE]
    /\ last2 = [op |-> "init", row |-> -1, col |-> -1, ok |-> TRUE]
    /\ pre = NewBoard
    /\ pre2 = NewBoard
    /\ snapshots = <<>>
    /\ undone = FALSE
    /\ heap = <<>>
    /\ objects = <<>>
    /\ acted = 0
    /\ game = [NewGame EXCEPT !.game_mode = "pvp", !.show_menu = FALSE]
    /\ saved = None
    /\ loads = 0

\* Bookkeeping of a call on the game object.
GameCalled(call, ok, s, g, sv) ==
    /\ board' = s.board
    /\ previous_board' = s.previous_board
    /\ current_player' = s.current_player
    /\ captured_black' = s.captured_black
    /\ captured_white' = s.captured_white
    /\ move_history' = s.move_history
    /\ ko_position' = s.ko_position
    /\ game' = g
    /\ saved' = sv
    /\ last' = [op |-> call.op, row |-> call.row, col |-> call.col, ok |-> ok]
    /\ last2' = last
    /\ pre' = Cur
    /\ pre2' = pre
    /\ UNCHANGED <<script, pos, snapshots, undone, heap, objects, acted>>

\* The board can be played on: it has Size rows of Size cells.
Playable == board \in [Idx -> [Idx -> {0, 1, 2}]]

\* game.save_game(), once, while the line of play is followed.
SaveGame ==
    /\ saved = None
    /\ free = 0
    /\ UNCHANGED <<free, loads>>
    /\ GameCalled(Query("save_game", -1, -1), TRUE, Cur, game, save_data(Cur, game))

\* game.load_game(): the record of the call keeps the file, the result and
\* the fields of the game before the call.
LoadGame(file) ==
    /\ free = 0
    /\ loads < MaxLoads
    /\ loads' = loads + 1
    /\ UNCHANGED free
    /\ \E r \in {load_game(Cur, game, file)} :
           GameCalled(Query("load_game", -1, -1),
                      [file |-> file, result |-> r.result, game |-> game],
                      r.state, r.game, saved)

\* Stones are played and moves undone while the board has its rows; the game
\* is saved and files are loaded while the line of play is followed.
NextLoad ==
    \/ Playable /\ Next
    \/ SaveGame
    \/ \E file \in Files : LoadGame(file)

SpecLoad == InitLoad /\ [][NextLoad]_vars

(***************************************************************************)
(* The game: the events of the menu and of the game screen.  A handler     *)
(* works on w = [state, game, searches, fits]: the fields of the board     *)
(* object, the fields of the game object, the searches started so far (the *)
(* engine, the player to move when it was asked, the move it returned and  *)
(* the colour of the stone placed for it) and whether they were within the *)
(* budget.  Handlers run to their end before the next event is read, so    *)
(* ai_thinking is False whenever an event is read.                         *)
(***************************************************************************)

Pva == {"pva_black", "pva_white"}

\* A search of this depth on the board s is within the budget.
Fits(s, depth) == EmptyPoints(s.board) ^ depth <= SearchBudget

\* The text check_game_over sets for (black_score, white_score), without the
\* numbers it prints.
WinnerText(score) ==
    IF score[1] > score[2] THEN "Black Wins!"
    ELSE IF score[2] > score[1] THEN "White Wins!"
    ELSE "Draw!"

\* check_game_over once get_valid_moves has returned v.
GameOverChecked(w, v) ==
    IF v.moves = <<>>
    THEN [w EXCEPT !.state.board = v.board,
                   !.game.game_over = TRUE,
                   !.game.winner_text = WinnerText(get_score(w.state))]
    ELSE [w EXCEPT !.state.board = v.board]

\* check_game_over: only the moves of the player to move are looked at.
check_game_over(w) == The({GameOverChecked(w, v) : v \in {get_valid_moves(w.state)}})

\* make_ai_move once board.make_move has returned m for the move r.move.
AiMoved(w, r, m) ==
    [w EXCEPT !.state = m.state,
              !.game.last_move = r.move,
              !.game.ai_thinking = FALSE,
              !.searches = Append(@, [kind    |-> "ai",
                                      ai      |-> w.game.ai,
                                      to_move |-> w.state.current_player,
                                      move    |-> r.move,
                                      placed  |-> m.state.move_history[
                                                      Len(m.state.move_history)][3]])]

\* make_ai_move once get_best_move has returned r.
AiSearched(w, r) ==
    IF r.move = None
    THEN [w EXCEPT !.state.board = r.board,
                   !.game.ai_thinking = FALSE,
                   !.searches = Append(@, [kind    |-> "ai",
                                           ai      |-> w.game.ai,
                                           to_move |-> w.state.current_player,
                                           move    |-> None,
                                           placed  |-> 0])]
    ELSE The({AiMoved(w, r, m)
              : m \in {make_move([w.state EXCEPT !.board = r.board],
                                 r.move[1], r.move[2])}})

make_ai_move(w) ==
    IF w.game.ai = None \/ w.game.game_over THEN w
    ELSE IF ~Fits(w.state, w.game.ai.depth) THEN [w EXCEPT !.fits = FALSE]
    ELSE The({check_game_over(moved)
              : moved \in {AiSearched(w, r) : r \in {get_best_move(w.game.ai, w.state)}}})

\* start_game, for the game object g whose game_mode the menu has just set.
start_game(g) ==
    LET g1 == [g EXCEPT !.show_menu = FALSE,
                        !.game_over = FALSE,
                        !.last_move = None,
                        !.hint_move = None,
                        !.show_hint = FALSE]
        w  == [state    |-> NewBoard,
               game     |-> [g1 EXCEPT !.ai = EngineOf(g1)],
               searches |-> <<>>,
               fits     |-> TRUE]
    IN  IF g.game_mode = "pva_white" THEN make_ai_move(w) ELSE w

\* The test of handle_events that it is the human's turn.
human_turn(s, g) ==
    \/ g.game_mode = "pvp"
    \/ g.game_mode = "pva_black" /\ s.current_player = 1
    \/ g.game_mode = "pva_white" /\ s.current_player = 2

\* The click on (row, col) once board.make_move has returned m.
Clicked(w, row, col, m) ==
    IF ~m.ok THEN [w EXCEPT !.state = m.state]
    ELSE The({IF checked.game.game_mode \in Pva /\ ~checked.game.game_over
              THEN make_ai_move(checked)
              ELSE checked
              : checked \in {check_game_over([w EXCEPT !.state = m.state,
                                                       !.game.last_move = <<row, col>>,
                                                       !.game.show_hint = FALSE,
                                                       !.game.hint_move = None])}})

\* handle_events for a mouse click on the point (row, col) of the board.
board_click(w, row, col) ==
    IF w.game.ai_thinking \/ w.game.game_over \/ ~human_turn(w.state, w.game) THEN w
    ELSE The({Clicked(w, row, col, m) : m \in {make_move(w.state, row, col)}})

\* handle_events for the Undo button: against the engine undo_move is called
\* a second time when the first call returned True.
undo_button(w) ==
    The({IF ~u.ok THEN [w EXCEPT !.state = u.state]
         ELSE [w EXCEPT !.state = IF w.game.game_mode \in Pva
                                  THEN undo_move(u.state).state
                                  ELSE u.state,
                        !.game.last_move = None,
                        !.game.game_over = FALSE]
         : u \in {undo_move(w.state)}})

\* self.hint_move = self.get_hint(): the engine of the hint is a new one of
\* the game's difficulty for the player to move.
get_hint(w) ==
    IF w.game.ai = None THEN [w EXCEPT !.game.hint_move = None]
    ELSE IF ~Fits(w.state, w.game.difficulty) THEN [w EXCEPT !.fits = FALSE]
    ELSE The({[w EXCEPT !.state.board = r.board,
                        !.game.hint_move = r.move,
                        !.searches = Append(@, [kind    |-> "hint",
                                                ai      |-> r.ai,
                                                to_move |-> w.state.current_player,
                                                move    |-> r.move,
                                                placed  |-> 0])]
              : r \in {[ai |-> hint_ai] @@ get_best_move(hint_ai, w.state)
                       : hint_ai \in {[depth  |-> w.game.difficulty,
                                       player |-> w.state.current_player]}}})

\* handle_events for the Hint button.
hint_button(w) ==
    IF w.game.show_hint THEN [w EXCEPT !.game.show_hint = FALSE]
    ELSE get_hint([w EXCEPT !.game.show_hint = TRUE])

\* The difficulties of the menu's buttons.
Difficulties == 1 .. MaxDepth

\* The events against the engine that are counted: there is no line of play.
MaxClicks == 2

InitGame ==
    /\ board = NewBoard.board
    /\ previous_board = NewBoard.previous_board
    /\ current_player = NewBoard.current_player
    /\ captured_black = NewBoard.captured_black
    /\ captured_white = NewBoard.captured_white
    /\ move_history = NewBoard.move_history
    /\ ko_position = NewBoard.ko_position
    /\ script = 1
    /\ pos = 0
    /\ free = 0
    /\ last = [op |-> "init", row |-> -1, col |-> -1, ok |-> TRUE]
    /\ last2 = [op |-> "init", row |-> -1, col |-> -1, ok |-> TRUE]
    /\ pre = NewBoard
    /\ pre2 = NewBoard
    /\ snapshots = <<>>
    /\ undone = FALSE
    /\ heap = <<>>
    /\ objects = <<>>
    /\ acted = 0
    /\ game = NewGame
    /\ saved = None
    /\ loads = 0

\* Bookkeeping of an event: the handler ended as w; the record of the event
\* keeps the game object of before it and the searches it started.
Handled(call, w) ==
    /\ w.fits
    /\ board' = w.state.board
    /\ previous_board' = w.state.previous_board
    /\ current_player' = w.state.current_player
    /\ captured_black' = w.state.captured_black
    /\ captured_white' = w.state.captured_white
    /\ move_history' = w.state.move_history
    /\ ko_position' = w.state.ko_position
    /\ game' = w.game
    /\ last' = [op |-> call.op, row |-> call.row, col |-> call.col,
                ok |-> [game |-> game, searches |-> w.searches]]
    /\ last2' = last
    /\ pre' = Cur
    /\ pre2' = pre
    /\ UNCHANGED <<snapshots, undone, heap, objects, acted, saved, loads>>

\* The handler starts on the fields of the current state.
Now == [state |-> Cur, game |-> game, searches |-> <<>>, fits |-> TRUE]

\* An event of the game screen: on the line of play of a game between two
\* humans, or one of the events off the line the budget of the mode allows.
Event(call) ==
    /\ ~game.show_menu
    /\ \/ game.game_mode = "pvp" /\ OnLine(call)
       \/ free < IF game.game_mode = "pvp" THEN MaxFree ELSE MaxClicks
    /\ pos' = IF game.game_mode = "pvp" /\ OnLine(call) THEN pos + 1 ELSE pos
    /\ free' = IF game.game_mode = "pvp" /\ OnLine(call) THEN free ELSE free + 1
    /\ UNCHANGED script

\* draw_menu: a difficulty button.
MenuDifficulty(d) ==
    /\ game.show_menu
    /\ UNCHANGED <<script, pos, free>>
    /\ Handled(Query("difficulty", d, -1), [Now EXCEPT !.game.difficulty = d])

\* draw_menu: a mode button; the game between two humans follows a line of
\* play from its start.
MenuMode(mode) ==
    /\ game.show_menu
    /\ IF mode = "pvp" THEN script' \in 1 .. Len(Lines) ELSE script' = script
    /\ pos' = 0
    /\ UNCHANGED free
    /\ \E w \in {start_game([game EXCEPT !.game_mode = mode])} :
           Handled(Query(mode, -1, -1), w)

\* handle_events: a click on the board.
BoardClick(row, col) ==
    /\ Event(Mv(row, col))
    /\ \E w \in {board_click(Now, row, col)} : Handled(Mv(row, col), w)

\* handle_events: the Undo button.
UndoButton ==
    /\ Event(Un)
    /\ \E w \in {undo_button(Now)} : Handled(Un, w)

\* handle_events: the Hint button.
HintButton ==
    /\ Event(Query("hint", -1, -1))
    /\ \E w \in {hint_button(Now)} : Handled(Query("hint", -1, -1), w)

\* handle_events: the Menu button.
MenuButton ==
    /\ Event(Query("menu", -1, -1))
    /\ Handled(Query("menu", -1, -1), [Now EXCEPT !.game.show_menu = TRUE])

NextGame ==
    \/ \E d \in Difficulties : MenuDifficulty(d)
    \/ \E mode \in Pva \cup {"pvp"} : MenuMode(mode)
    \/ \E row \in Idx, col \in Idx : BoardClick(row, col)
    \/ UndoButton
    \/ HintButton
    \/ MenuButton

SpecGame == InitGame /\ [][NextGame]_vars

(***************************************************************************)
(* Properties                                                              *)
(***************************************************************************)

MoveCalled == last.op = "make_move"

UndoCalled == last.op = "undo_move"

\* C1: a make_move(row, col) for which is_valid_move is false returns False and
\* leaves board, previous_board, current_player, both capture counters,
\* move_history and ko_position as they were, so that the same call made again
\* fails again and again changes nothing.
C1_IllegalMoveRejected ==
    (MoveCalled /\ ~is_valid_move(pre, last.row, last.col).result) =>
        /\ ~last.ok
        /\ Cur = pre
        /\ ~make_move(Cur, last.row, last.col).ok
        /\ make_move(Cur, last.row, last.col).state = Cur

\* A move onto an empty point that is not the ko point was rejected (suicide).
C1_Witness ==
    /\ MoveCalled /\ ~last.ok
    /\ pre.board[last.row][last.col] = 0
    /\ pre.ko_position # <<last.row, last.col>>

\* C2: a successful make_move followed immediately by undo_move gives back the
\* cells, the player to move and the length of move_history of before the move.
C2_MoveThenUndo ==
    (last2.op = "make_move" /\ last2.ok /\ UndoCalled) =>
        /\ last.ok
        /\ board = pre2.board
        /\ current_player = pre2.current_player
        /\ Len(move_history) = Len(pre2.move_history)

\* A capturing move was made and then taken back.
C2_Witness ==
    /\ last2.op = "make_move" /\ last2.ok
    /\ UndoCalled /\ last.ok
    /\ pre.captured_white > pre2.captured_white

\* C3: whenever undo_move can succeed, previous_board is the snapshot taken just
\* before the move at the end of move_history, so that every successful undo,
\* also one that directly follows another undo, restores the cells that held
\* before the move whose entry it pops.
C3_UndoRestoresPoppedMove ==
    (move_history # <<>> /\ previous_board # None) =>
        /\ Len(snapshots) = Len(move_history)
        /\ previous_board = snapshots[Len(snapshots)]

\* C4: undo_move returns False when move_history is empty or there is no
\* previous_board, and then leaves every field of the board as it was.
C4_UndoWithoutHistory ==
    (UndoCalled /\ (pre.move_history = <<>> \/ pre.previous_board = None)) =>
        /\ ~last.ok
        /\ Cur = pre

\* An undo was refused on a board that has a snapshot but an empty history.
C4_Witness ==
    /\ UndoCalled /\ ~last.ok
    /\ pre.move_history = <<>>
    /\ pre.previous_board # None

(***************************************************************************)
(* The rules of the game stated without the code's loops: groups as        *)
(* closures under adjacency, liberties as adjacent empty points.           *)
(***************************************************************************)

Abs(n) == IF n < 0 THEN -n ELSE n

Adjacent(p, q) == Abs(p[1] - q[1]) + Abs(p[2] - q[2]) = 1

At(b, p) == b[p[1]][p[2]]

\* The least set of cells containing S and closed under adjacency within one colour.
RECURSIVE Closure(_, _, _)
Closure(b, color, S) ==
    LET T == S \cup {q \in Cells : At(b, q) = color /\ \E p \in S : Adjacent(p, q)}
    IN  IF T = S THEN S ELSE Closure(b, color, T)

GroupOf(b, p) == Closure(b, At(b, p), {p})

LibertiesOf(b, G) == {q \in Cells : At(b, q) = 0 /\ \E p \in G : Adjacent(p, q)}

Place(b, p, color) == [b EXCEPT ![p[1]][p[2]] = color]

\* The opposing stones that have no liberty once color is placed at p.
DeadAfter(b, p, color) ==
    LET b1 == Place(b, p, color)
    IN  {q \in Cells : At(b1, q) = 3 - color /\ LibertiesOf(b1, GroupOf(b1, q)) = {}}

\* Suicide: the placed stone's group has no liberty and no adjacent opposing
\* group has none either.
Suicide(b, p, color) ==
    LET b1 == Place(b, p, color)
    IN  /\ LibertiesOf(b1, GroupOf(b1, p)) = {}
        /\ ~\E q \in Cells : /\ Adjacent(p, q)
                             /\ At(b1, q) = 3 - color
                             /\ LibertiesOf(b1, GroupOf(b1, q)) = {}

\* Placing color at p leaves some adjacent opposing group without liberty.
Captures(b, p, color) ==
    LET b1 == Place(b, p, color)
    IN  \E q \in Cells : /\ Adjacent(p, q)
                         /\ At(b1, q) = 3 - color
                         /\ LibertiesOf(b1, GroupOf(b1, q)) = {}

Legal(p) == is_valid_move(Cur, p[1], p[2]).result

\* C5: is_valid_move(row, col) is true exactly when the cell is empty, is not
\* ko_position and placing the current player's stone there is not suicide; a
\* move onto an occupied cell is illegal and a move onto an empty cell that is
\* not the ko point and captures is legal.
C5_LegalIffEmptyNoKoNoSuicide ==
    \A p \in Cells :
        /\ Legal(p) <=> /\ At(board, p) = 0
                        /\ ko_position # p
                        /\ ~Suicide(board, p, current_player)
        /\ At(board, p) # 0 => ~Legal(p)
        /\ (/\ At(board, p) = 0
            /\ ko_position # p
            /\ Captures(board, p, current_player)) => Legal(p)

\* Some empty point is legal only because it captures (the stone placed there
\* has no liberty of its own) while another empty point is suicide.
C5_Witness ==
    /\ \E p \in Cells :
          /\ At(board, p) = 0
          /\ Legal(p)
          /\ LET b1 == Place(board, p, current_player)
             IN  LibertiesOf(b1, GroupOf(b1, p)) = {}
    /\ \E p \in Cells :
          /\ At(board, p) = 0
          /\ ko_position # p
          /\ ~Legal(p)

\* The number of stones of a colour on a board.
Stones(b, color) == Cardinality({q \in Cells : At(b, q) = color})

\* C6: a successful make_move by player C removes exactly the opposing stones
\* whose group has no liberty once the stone is placed and no other stone,
\* adds the number of stones removed to the mover's capture counter and leaves
\* the other player's counter alone.
C6_CapturesExactlyDeadGroups ==
    (MoveCalled /\ last.ok) =>
        LET p      == <<last.row, last.col>>
            mover  == pre.current_player
            placed == Place(pre.board, p, mover)
            dead   == DeadAfter(pre.board, p, mover)
            n      == Cardinality(dead)
        IN  /\ \A q \in Cells :
                  At(board, q) = IF q \in dead THEN 0 ELSE At(placed, q)
            /\ IF mover = 1
               THEN /\ captured_white = pre.captured_white + n
                    /\ captured_black = pre.captured_black
               ELSE /\ captured_black = pre.captured_black + n
                    /\ captured_white = pre.captured_white

\* A move has just captured a group of at least two stones.
C6_Witness ==
    /\ MoveCalled /\ last.ok
    /\ Stones(board, current_player) + 2 <= Stones(pre.board, current_player)

\* The cells that held an opposing stone before the last move and are empty now.
Vacated == {q \in Cells : At(pre.board, q) = current_player /\ At(board, q) = 0}

\* C7: after a successful make_move ko_position is set if and only if the move
\* captured exactly one stone, and then it is the cell that stone stood on; a
\* move capturing no stone or several leaves it None, whatever it was before.
C7_KoIffSingleCapture ==
    (MoveCalled /\ last.ok) =>
        IF Cardinality(Vacated) = 1
        THEN ko_position \in Vacated
        ELSE ko_position = None

\* A move has just captured exactly one stone while a ko point was in force.
C7_Witness ==
    /\ MoveCalled /\ last.ok
    /\ pre.ko_position # None
    /\ Cardinality(Vacated) = 1
    /\ ko_position # None

\* The last call was a successful move made while a ko point X was in force.
MovedPastKo == MoveCalled /\ last.ok /\ pre.ko_position # None

\* C8 as stated: the ko point is illegal for the next move, and once another
\* move has been applied and ko_position is cleared it is legal again.
C8_KoPointLegalAgain ==
    /\ ko_position # None => ~Legal(ko_position)
    /\ (MovedPastKo /\ ko_position = None) => Legal(pre.ko_position)

\* C8 amended: the ko point X is illegal for the next move; once another move
\* has been applied X is empty and no longer the ko point, and playing there
\* is legal exactly when it is not suicide for the player then to move.
C8_KoPointFreedUnlessSuicide ==
    /\ ko_position # None => ~Legal(ko_position)
    /\ MovedPastKo =>
          /\ ko_position # pre.ko_position
          /\ At(board, pre.ko_position) = 0
          /\ Legal(pre.ko_position) <=> ~Suicide(board, pre.ko_position, current_player)

\* A move was made elsewhere while X was the ko point, and X is legal again.
C8_Witness ==
    /\ MovedPastKo
    /\ Legal(pre.ko_position)

RowMajor(p) == p[1] * Size + p[2]

\* What is required of the list `moves` returned by get_valid_moves.
ValidMovesRowMajor(moves) ==
    /\ \A i \in 1 .. Len(moves) - 1 : RowMajor(moves[i]) < RowMajor(moves[i + 1])
    /\ Range(moves) = {p \in Cells : Legal(p)}
    /\ \A i \in 1 .. Len(moves) : /\ At(board, moves[i]) = 0
                                  /\ moves[i] # ko_position
    /\ (/\ captured_black = 0
        /\ captured_white = 0
        /\ \A p \in Cells : At(board, p) = 0 => ~Suicide(board, p, current_player))
       => Range(moves) = {p \in Cells : At(board, p) = 0}

\* C9: get_valid_moves returns, in row-major order and without duplicates,
\* exactly the cells for which is_valid_move holds; it holds no occupied cell
\* and not the ko point, and when no capture is recorded and no empty cell is
\* suicide it holds every empty cell.
C9_ValidMovesRowMajor == ValidMovesRowMajor(get_valid_moves(Cur).moves)

\* The list is not empty and leaves out the ko point, which is empty.
C9_Witness ==
    /\ ko_position # None
    /\ Len(get_valid_moves(Cur).moves) > 1

\* C10: current_player is the colour that did not make the last move of
\* move_history (Black when it is empty); a successful make_move switches it
\* and a rejected make_move does not.
C10_PlayerAlternates ==
    /\ current_player = IF move_history = <<>> THEN 1
                        ELSE 3 - move_history[Len(move_history)][3]
    /\ (MoveCalled /\ last.ok) => current_player = 3 - pre.current_player
    /\ (MoveCalled /\ ~last.ok) => current_player = pre.current_player

\* A move has been taken back and the history is not empty.
C10_Witness ==
    /\ UndoCalled /\ last.ok
    /\ move_history # <<>>

\* C11: the number of stones on the board plus captured_black plus
\* captured_white equals the length of move_history.
C11_StonesPlusCapturesIsHistory ==
    Stones(board, 1) + Stones(board, 2) + captured_black + captured_white
        = Len(move_history)

\* C12: when ko_position is set, the cell it names is empty.
C12_KoPointEmpty ==
    ko_position # None => At(board, ko_position) = 0

\* A ko point is in force.
C12_Witness ==
    /\ MoveCalled /\ last.ok
    /\ ko_position # None

\* C20: as long as no move has been taken back, the cells after a successful
\* make_move never equal the cells that held two moves earlier, that is,
\* before the move that precedes it in move_history.
C20_NoImmediateRepetition ==
    (MoveCalled /\ last.ok /\ ~undone /\ Len(snapshots) >= 2) =>
        board # snapshots[Len(snapshots) - 1]

\* A move was made at a point other than the ko point in force, by a stone
\* that captures.
C20_Witness ==
    /\ MoveCalled /\ last.ok /\ ~undone
    /\ Len(snapshots) >= 2
    /\ pre.ko_position # None
    /\ Vacated # {}

\* C13: get_score returns the black stones on the board plus the white stones
\* captured, and the white stones on the board plus the black stones captured
\* plus 2.5 (scores in half points); on the fresh board it returns (0, 2.5);
\* it changes no field of the board.
C13_Score ==
    /\ get_score(NewBoard) = <<0, 5>>
    /\ last.op = "get_score" =>
          /\ last.ok = <<2 * (Stones(board, 1) + captured_white),
                         2 * (Stones(board, 2) + captured_black) + 5>>
          /\ Cur = pre

\* The score was taken of a board with stones of both colours and a capture.
C13_Witness ==
    /\ last.op = "get_score"
    /\ Stones(board, 1) > 0 /\ Stones(board, 2) > 0
    /\ captured_white > 0

\* C19: is_valid_move and get_valid_moves leave the cells and every other field
\* of the board as they were, whatever they return.
C19_QueriesArePure ==
    last.op \in {"is_valid_move", "get_valid_moves"} => Cur = pre

\* is_valid_move has returned False for an empty point that is not the ko
\* point: the suicide check placed its stone there.
C19_Witness ==
    /\ last.op = "is_valid_move"
    /\ last.ok = FALSE
    /\ At(pre.board, <<last.row, last.col>>) = 0
    /\ pre.ko_position # <<last.row, last.col>>

SearchCalled == last.op = "get_best_move"

\* Minimax without pruning: the value of a position, the first of the moves
\* (in the order of get_valid_moves) that reaches it, and the number of
\* positions looked at.
\* Children(...) is the sequence of what it finds after each of the moves.
RECURSIVE Exhaustive(_, _, _, _)
RECURSIVE Children(_, _, _, _, _, _, _)
Children(s, player, depth, maximizing, moves, lo, hi) ==
    IF lo = hi
    THEN << Exhaustive(make_move(s, moves[lo][1], moves[lo][2]).state,
                       player, depth - 1, ~maximizing) >>
    ELSE Children(s, player, depth, maximizing, moves, lo, (lo + hi) \div 2)
         \o Children(s, player, depth, maximizing, moves, (lo + hi) \div 2 + 1, hi)

Exhaustive(s, player, depth, maximizing) ==
    LET moves == get_valid_moves(s).moves
    IN  IF depth = 0 \/ moves = <<>>
        THEN [score |-> evaluate_board(s, player), move |-> None, nodes |-> 1]
        ELSE LET sub == Children(s, player, depth, maximizing, moves, 1, Len(moves))
                 best == CHOOSE i \in 1 .. Len(moves) :
                             /\ \A j \in 1 .. Len(moves) :
                                    IF maximizing THEN sub[j].score <= sub[i].score
                                    ELSE sub[j].score >= sub[i].score
                             /\ \A j \in 1 .. i - 1 : sub[j].score # sub[i].score
                 RECURSIVE Total(_)
                 Total(i) == IF i = 0 THEN 1 ELSE sub[i].nodes + Total(i - 1)
             IN  [score |-> sub[best].score, move |-> moves[best],
                  nodes |-> Total(Len(moves))]

\* What minimax without pruning finds at the position the engine was given.
ExhaustiveOfCall == Exhaustive(pre, last.ok.ai.player, last.ok.ai.depth, TRUE)

\* C15: the move and the score of the root call of the alpha-beta search are
\* those of minimax without pruning with the same order of moves and the first
\* of equally good moves kept; pruning can only lower the number of nodes.
C15_AlphaBetaIsMinimax ==
    SearchCalled =>
        \A e \in {ExhaustiveOfCall} :
            /\ last.ok.score = e.score
            /\ last.ok.move = e.move
            /\ last.ok.nodes <= e.nodes

\* A search of two plies or more in which a cutoff was taken.
C15_Witness ==
    /\ SearchCalled
    /\ last.ok.ai.depth >= 2
    /\ last.ok.move # None
    /\ last.ok.nodes < ExhaustiveOfCall.nodes

\* The legal moves of the position s, by the rules.
LegalMoves(s) ==
    {p \in Cells : /\ At(s.board, p) = 0
                   /\ s.ko_position # p
                   /\ ~Suicide(s.board, p, s.current_player)}

\* C16: get_best_move returns no move exactly when the position has no legal
\* move; a move it returns is a legal move of the position; it counts at least
\* one node; an engine of depth 1 at a position with one legal move returns
\* that move.
C16_BestMoveIsLegal ==
    SearchCalled =>
        /\ last.ok.move = None <=> LegalMoves(pre) = {}
        /\ last.ok.move # None => last.ok.move \in LegalMoves(pre)
        /\ last.ok.nodes >= 1
        /\ (last.ok.ai.depth = 1 /\ Cardinality(LegalMoves(pre)) = 1)
               => LegalMoves(pre) = {last.ok.move}

\* The engine is asked at a position without a legal move.
C16_Witness ==
    /\ SearchCalled
    /\ LegalMoves(pre) = {}
    /\ last.ok.move = None

\* An engine of depth 1 is asked at a position with exactly one legal move.
C16_WitnessOneMove ==
    /\ SearchCalled
    /\ last.ok.ai.depth = 1
    /\ Cardinality(LegalMoves(pre)) = 1
    /\ last.ok.move # None
\* C14: a copy shares no list with its original: a make_move or undo_move on
\* one board object leaves every field of every other board object as it was,
\* and copy() and get_best_move, at every depth, leave every field of every
\* board object as it was, the one they were given included.
C14_CopyIsIndependent ==
    [][\A i \in 1 .. Len(objects) :
          (acted' # i \/ last'.op \in {"copy", "get_best_move"})
             => ObjValue(heap', objects[i].ref) = ObjValue(heap, objects[i].ref)]_vars

\* A move was made on a copy, which now differs from the first object.
C14_Witness ==
    /\ last.op = "make_move"
    /\ last.ok
    /\ acted > 1
    /\ ObjValue(heap, objects[acted].ref).board # board
    /\ previous_board # None

\* The engine was asked at its largest depth on an object that has a copy.
C14_WitnessSearch ==
    /\ last.op = "get_best_move"
    /\ last.ok.ai.depth = MaxDepth
    /\ last.ok.move # None
    /\ Len(objects) > 1
LoadCalled == last.op = "load_game"

\* C17: a load_game that fails, because there is no file or because the file
\* lacks a field or has a field of the wrong shape, returns False and leaves
\* the cells, the player to move, the capture counters, the move history, the
\* game mode, the difficulty and the engine as they were.
C17_FailedLoadIsHarmless ==
    (LoadCalled /\ ~WellFormed(last.ok.file)) =>
        /\ last.ok.result = "False"
        /\ Cur = pre
        /\ game = last.ok.game

\* load_game returns False for a missing file and changes nothing.
C17_MissingFile ==
    (LoadCalled /\ ~last.ok.file.exists) =>
        /\ last.ok.result = "False"
        /\ Cur = pre
        /\ game = last.ok.game

\* C18: after a load_game that returns True the board is a new board filled
\* from the record: cells, player to move, capture counters and move history
\* are the record's, and previous_board and ko_position are None.
C18_LoadedBoardIsFresh ==
    (LoadCalled /\ last.ok.result = "True" /\ WellFormed(last.ok.file)) =>
        /\ board = last.ok.file.data.board
        /\ current_player = last.ok.file.data.current_player
        /\ captured_black = last.ok.file.data.captured_black
        /\ captured_white = last.ok.file.data.captured_white
        /\ move_history = last.ok.file.data.move_history
        /\ previous_board = None
        /\ ko_position = None

\* What does hold after a load_game that returns True: the five fields are
\* the record's, previous_board and ko_position are those of the game before.
C18_LoadedFields ==
    (LoadCalled /\ last.ok.result = "True" /\ WellFormed(last.ok.file)) =>
        /\ board = last.ok.file.data.board
        /\ current_player = last.ok.file.data.current_player
        /\ captured_black = last.ok.file.data.captured_black
        /\ captured_white = last.ok.file.data.captured_white
        /\ move_history = last.ok.file.data.move_history
        /\ previous_board = pre.previous_board
        /\ ko_position = pre.ko_position

\* The last two calls were a successful make_move and a successful undo_move.
MovedAndUndone ==
    /\ last2.op = "make_move" /\ last2.ok
    /\ UndoCalled /\ last.ok

\* C26: a legal make_move followed immediately by undo_move leaves the list
\* returned by get_valid_moves as it was before the move, also when a ko
\* point was in force before the move.
C26_MoveThenUndoKeepsValidMoves ==
    MovedAndUndone => get_valid_moves(Cur).moves = get_valid_moves(pre2).moves

\* What does hold: the list is the same when no ko point was in force before
\* the move, and otherwise it is the list of before the move with the ko
\* point added when playing there is not suicide.
C26_ValidMovesButForKo ==
    MovedAndUndone =>
        LET before == Range(get_valid_moves(pre2).moves)
            after  == Range(get_valid_moves(Cur).moves)
            ko     == pre2.ko_position
        IN  /\ ko_position = None
            /\ ko = None => get_valid_moves(Cur).moves = get_valid_moves(pre2).moves
            /\ ko # None =>
                  after = before \cup
                      IF Suicide(board, ko, current_player) THEN {} ELSE {ko}

\* A move made while a ko point was in force has been taken back, and the ko
\* point is now a valid move.
C26_KoForgotten ==
    /\ MovedAndUndone
    /\ pre2.ko_position # None
    /\ pre2.ko_position \in Range(get_valid_moves(Cur).moves)

\* C25: after every make_move and undo_move every group of stones on the
\* board, of either colour, has at least one liberty.
C25_EveryGroupHasALiberty ==
    \A p \in Cells :
        At(board, p) # 0 => LibertiesOf(board, GroupOf(board, p)) # {}

\* A stone placed without a liberty of its own stands after the capture it
\* made, next to a stone of its colour that was down to its last liberty.
C25_Witness ==
    /\ MoveCalled /\ last.ok
    /\ LET p      == <<last.row, last.col>>
           placed == Place(pre.board, p, pre.current_player)
       IN  /\ LibertiesOf(placed, GroupOf(placed, p)) = {}
           /\ Cardinality(LibertiesOf(board, GroupOf(board, p))) = 1

\* A capturing move has been taken back: the stones it removed stand again.
C25_WitnessUndo ==
    /\ MovedAndUndone
    /\ pre.captured_white + pre.captured_black
           > pre2.captured_white + pre2.captured_black
    /\ \E p \in Cells : At(pre.board, p) = 0 /\ At(board, p) # 0

(***************************************************************************)
(* Properties of the game                                                  *)
(***************************************************************************)

\* The last event declared the game over.
DeclaredOver == ~last.ok.game.game_over /\ game.game_over

\* The board with the other player to move.
OtherToMove == [Cur EXCEPT !.current_player = 3 - current_player]

\* C22: check_game_over sets game_over only when neither player has a valid
\* move on the board; the winner text then names the side with the strictly
\* higher score of get_score, and is "Draw!" only when the scores are equal.
C22_OverWhenNeitherCanMove ==
    (last.op \in {"make_move", "pva_white"} /\ DeclaredOver) =>
        /\ get_valid_moves(Cur).moves = <<>>
        /\ get_valid_moves(OtherToMove).moves = <<>>
        /\ game.winner_text = "Black Wins!" <=> get_score(Cur)[1] > get_score(Cur)[2]
        /\ game.winner_text = "White Wins!" <=> get_score(Cur)[2] > get_score(Cur)[1]
        /\ game.winner_text = "Draw!" <=> get_score(Cur)[1] = get_score(Cur)[2]

\* What does hold: the game is declared over exactly when the player to move
\* has no valid move, and the winner text is as stated.
C22_OverWhenMoverCannotMove ==
    (last.op \in {"make_move", "pva_white"} /\ ~last.ok.game.game_over
                                            /\ move_history # pre.move_history) =>
        /\ game.game_over <=> get_valid_moves(Cur).moves = <<>>
        /\ game.game_over =>
              /\ game.winner_text = "Black Wins!" <=> get_score(Cur)[1] > get_score(Cur)[2]
              /\ game.winner_text = "White Wins!" <=> get_score(Cur)[2] > get_score(Cur)[1]
              /\ game.winner_text = "Draw!" <=> get_score(Cur)[1] = get_score(Cur)[2]

\* The game was declared over while the player not to move has a valid move.
C22_OverButOtherCanMove ==
    /\ last.op = "make_move" /\ DeclaredOver
    /\ get_valid_moves(OtherToMove).moves # <<>>

\* The colour of the human in a game against the engine.
HumanColour == IF game.game_mode = "pva_black" THEN 1 ELSE 2

\* Against the engine, Undo was pressed right after a click that the engine
\* answered: the last two entries of move_history were the human's move and
\* the engine's reply, and pre2 holds the fields of before the human's move.
UndoAfterReply ==
    /\ game.game_mode \in Pva
    /\ last2.op = "make_move"
    /\ last.op = "undo_move"
    /\ Len(pre.move_history) = Len(pre2.move_history) + 2
    /\ pre.move_history[Len(pre.move_history) - 1][3] = HumanColour
    /\ pre.move_history[Len(pre.move_history)][3] = 3 - HumanColour

\* C21: against the engine, Undo pressed when the last two entries of
\* move_history are the human's move and the engine's reply takes both back:
\* the cells are those of before the human's move, move_history is two
\* entries shorter and it is the human's turn.
C21_UndoTakesBackBoth ==
    UndoAfterReply =>
        /\ board = pre2.board
        /\ Len(move_history) = Len(pre.move_history) - 2
        /\ current_player = HumanColour

\* What does hold: move_history is two entries shorter and it is the human's
\* turn, on the cells of before the engine's reply.
C21_UndoTakesBackReplyOnly ==
    UndoAfterReply =>
        /\ board = pre.previous_board
        /\ Len(move_history) = Len(pre.move_history) - 2
        /\ current_player = HumanColour

\* After the Undo the human's stone is still on the board.
C21_HumansStoneStays ==
    /\ UndoAfterReply
    /\ board[last2.row][last2.col] = HumanColour
    /\ pre2.board[last2.row][last2.col] = 0

\* C23: against the engine, with either colour, whenever an event is waited
\* for, the game is not over and the menu is not shown, the player to move is
\* the human: no clicks, Undo presses and replies of the engine lead to a
\* state where it is the engine's turn, no move of the engine is started and
\* clicks on the board are ignored.
C23_HumanToMoveWhenWaiting ==
    (game.game_mode \in Pva /\ ~game.show_menu /\ ~game.game_over) =>
        current_player = HumanColour

\* It is the engine's turn and a click on any point is ignored.
C23_Stuck ==
    /\ game.game_mode \in Pva /\ ~game.show_menu /\ ~game.game_over
    /\ game.ai # None
    /\ current_player = game.ai.player
    /\ \A row \in Idx, col \in Idx : board_click(Now, row, col) = Now

\* The searches the last event started.
Searches == IF last.op = "init" THEN <<>> ELSE last.ok.searches

\* C24: every search the game starts, for a move of the engine in start_game
\* or after a move of the human, or for a hint, is started with the player to
\* move equal to the engine's player, and a stone placed for the engine is of
\* the engine's colour.
C24_SearchForPlayerToMove ==
    \A i \in 1 .. Len(Searches) :
        /\ Searches[i].to_move = Searches[i].ai.player
        /\ Searches[i].kind = "ai" =>
              /\ Searches[i].ai = game.ai
              /\ Searches[i].ai.player = 3 - HumanColour
              /\ Searches[i].move # None => Searches[i].placed = Searches[i].ai.player
        /\ Searches[i].kind = "hint" => Searches[i].ai.depth = game.difficulty

\* The engine, playing White, has answered a click with a stone.
C24_Witness ==
    /\ last.op = "make_move"
    /\ Len(Searches) = 1
    /\ Searches[1].kind = "ai"
    /\ Searches[1].ai.player = 2
    /\ Searches[1].placed = 2

\* The engine, playing Black, has opened the game.
C24_WitnessOpening ==
    /\ last.op = "pva_white"
    /\ Len(Searches) = 1
    /\ Searches[1].placed = 1
    /\ Len(move_history) = 1

\* A hint was asked for the human playing White.
C24_WitnessHint ==
    /\ last.op = "hint"
    /\ game.game_mode = "pva_white"
    /\ Len(Searches) = 1
    /\ Searches[1].to_move = 2
    /\ game.hint_move # None
====
